---- MODULE Spec2Model ----
(***************************************************************************)
(* FlaminUI CLI (bin/flamin-ui.js): the `init` and `add <component>`       *)
(* commands as a state machine over the project directory.                *)
(*                                                                         *)
(* The project directory is the shared state (files, the components       *)
(* directory, the parsed package.json).  Every command invocation is a    *)
(* process of its own; its position in the handler is pc[p].  A step is   *)
(* one filesystem call, one prompt, one child process or one HTTP         *)
(* request of the handler.                                                 *)
(***************************************************************************)
EXTENDS Integers, Sequences, FiniteSets, TLC

(* ------------------------------ bounds -------------------------------- *)
NumBodies == 2          \* distinct response bodies the remote may serve

(* --------------------------- program constants ------------------------ *)
requiredDependencies == <<"framer-motion", "clsx", "tailwind-merge", "tw-merge">>

Range(s) == {s[i] : i \in 1..Len(s)}
Required == Range(requiredDependencies)

Absent == "ENOENT"                  \* no file at a path
Running == <<>>                     \* exitCode of a process that has not terminated

PackageJson == "package.json"
utilDestPath == "lib/util.ts"
cnDestPath == "utils/cn.ts"
tailwindConfigPath == "tailwind.config.ts"
ConfigFiles == {utilDestPath, cnDestPath, tailwindConfigPath}

utilSource == "<flamin-ui/src/util.ts>"      \* content of the packaged util.ts
cnSource == "<flamin-ui/src/cn.ts>"          \* content of the packaged cn.ts
tailwindConfigContent == "import type { Config } from \"tailwindcss\"; ... export default config;"

Components == {"Button", "Card"}   \* the <component> arguments tried
componentPath(c) == "lib/components/" \o c \o ".tsx"
ComponentFiles == {componentPath(c) : c \in Components}

AllBodies == <<"body-1", "body-2", "body-3", "body-4">>
Bodies == {AllBodies[i] : i \in 1..NumBodies}
LocalEdit == "<local edit>"         \* content the user put there before the run

Paths == {PackageJson} \cup ConfigFiles \cup ComponentFiles

Procs == {1, 2}

NoResponse == "none"                \* no response object yet
Rejected == "rejected"              \* fetch() rejected: no response at all
Statuses == {"200", "404", "500"}   \* response.status

(* ------------------------------ manifest ------------------------------ *)
Undefined == "undefined"            \* packageJson.dependencies?.[dep] of an undeclared name
EmptyMap == [d \in Required |-> Undefined]

Keys(m) == {d \in Required : m[d] # Undefined}
Declared(pj) == Keys(pj.dependencies) \cup Keys(pj.devDependencies)

\* JavaScript truthiness of a looked-up value
Truthy(v) == v # Undefined /\ v # ""

PrefixNames(k) == {requiredDependencies[i] : i \in 1..k}
SuffixNames(k) == {requiredDependencies[i] : i \in (Len(requiredDependencies) - k + 1)..Len(requiredDependencies)}
MapOf(keys, falsy) ==
  [d \in Required |-> IF d \in keys THEN (IF d \in falsy THEN "" ELSE "^1.0.0") ELSE Undefined]

\* The manifests a run may start from: the first k required names declared in
\* dependencies (at most one of them with an empty version string), the last j
\* in devDependencies.
Manifests ==
  {[dependencies |-> MapOf(PrefixNames(k), f), devDependencies |-> MapOf(SuffixNames(j), {})] :
     <<k, j, f>> \in {t \in (0..4) \X {0, 2, 4} \X {{}, {"clsx"}, {"tw-merge"}} :
                        t[3] \subseteq PrefixNames(t[1])}}

(* ----------------------------- filesystem ----------------------------- *)
\* (variant) a check that always finds the path
existsSyncAlways(f, path) == TRUE

existsSync(f, path) == f[path] # Absent

\* (variant) appends to what is there, as fs.appendFileSync would
outputFileSyncAppend(f, path, content) ==
  [f EXCEPT ![path] = IF @ = Absent THEN content ELSE @ \o content]

\* (variant) leaves a destination that is already there alone (flag "wx" without the throw)
outputFileSyncExclusive(f, path, content) ==
  [f EXCEPT ![path] = IF @ = Absent THEN content ELSE @]

\* (variant) writes an empty file (the body is not awaited)
outputFileSyncEmpty(f, path, content) == [f EXCEPT ![path] = ""]

\* fs.outputFileSync(path, content): replaces the whole content
outputFileSync(f, path, content) == [f EXCEPT ![path] = content]

\* fs.copySync(src, dest): dest gets the source's content
copySync(f, content, dest) == [f EXCEPT ![dest] = content]

VARIABLES
  fs,                   \* path -> content, or Absent
  componentsDir,        \* whether lib/components exists
  packageJson,          \* JSON.parse of package.json
  pc, cmd, component,   \* per process: position, command, <component> argument
  missingDependencies,  \* per process: the filtered list (line 35)
  componentContent,     \* per process: response.text() (line 218)
  exitCode,             \* per process: Running, <<0>> or <<1>>
  response,             \* per process: status of the response (line 214), or NoResponse
  asked, agreed,        \* per process: prompts shown / answered yes in this run
  npmCalls,             \* per process: argument lists of the npm install child processes
  requests,             \* per process: HTTP GETs issued in this run
  fs0, dir0, pkg0,      \* per process: the project as it was when the run started
  wrote,                \* per process: config file -> content this run wrote, or Absent
  initWrote,            \* config file -> content the latest completed init wrote, or Absent
  lastWriter            \* component file -> the process that wrote it last, or 0

vars == <<fs, componentsDir, packageJson, pc, cmd, component, missingDependencies,
          componentContent, exitCode, response, asked, agreed, npmCalls, requests,
          fs0, dir0, pkg0, wrote, initWrote, lastWriter>>

project == <<fs, componentsDir, packageJson>>
locals == <<missingDependencies, componentContent, response>>
history == <<asked, agreed, npmCalls, requests, wrote>>
snapshot == <<fs0, dir0, pkg0, initWrote>>

(* ------------------------------- Init --------------------------------- *)
Init ==
  /\ packageJson \in Manifests
  /\ fs \in {f \in [Paths -> {Absent, LocalEdit, "<json>"}] :
               /\ f[PackageJson] \in {Absent, "<json>"}
               /\ \A q \in Paths \ {PackageJson} : f[q] # "<json>"
               /\ \A q \in ComponentFiles : f[q] = Absent}
  /\ fs[PackageJson] = Absent => packageJson = [dependencies |-> EmptyMap, devDependencies |-> EmptyMap]
  /\ componentsDir \in BOOLEAN
  /\ pc = [p \in Procs |-> "idle"]
  /\ cmd = [p \in Procs |-> "none"]
  /\ component = [p \in Procs |-> "none"]
  /\ missingDependencies = [p \in Procs |-> <<>>]
  /\ componentContent = [p \in Procs |-> Absent]
  /\ exitCode = [p \in Procs |-> Running]
  /\ response = [p \in Procs |-> NoResponse]
  /\ asked = [p \in Procs |-> {}]
  /\ agreed = [p \in Procs |-> {}]
  /\ npmCalls = [p \in Procs |-> <<>>]
  /\ requests = [p \in Procs |-> 0]
  /\ fs0 = [p \in Procs |-> fs]
  /\ dir0 = [p \in Procs |-> componentsDir]
  /\ pkg0 = [p \in Procs |-> packageJson]
  /\ wrote = [p \in Procs |-> [q \in ConfigFiles |-> Absent]]
  /\ initWrote = [q \in ConfigFiles |-> Absent]
  /\ lastWriter = [q \in ComponentFiles |-> 0]

(* --------------------------- process control -------------------------- *)
goto(p, label) == pc' = [pc EXCEPT ![p] = label]

\* process.exit(code), or the handler returning (code 0)
exit(p, code) ==
  /\ pc' = [pc EXCEPT ![p] = "exited"]
  /\ exitCode' = [exitCode EXCEPT ![p] = <<code>>]

noted(p, q, content) == wrote' = [wrote EXCEPT ![p][q] = content]

\* A new process is spawned for a command line; nothing of the previous
\* process survives but what it left in the project directory.
spawn(p, c, arg) ==
  /\ cmd' = [cmd EXCEPT ![p] = c]
  /\ component' = [component EXCEPT ![p] = arg]
  /\ pc' = [pc EXCEPT ![p] = c]
  /\ exitCode' = [exitCode EXCEPT ![p] = Running]
  /\ missingDependencies' = [missingDependencies EXCEPT ![p] = <<>>]
  /\ componentContent' = [componentContent EXCEPT ![p] = Absent]
  /\ response' = [response EXCEPT ![p] = NoResponse]
  /\ asked' = [asked EXCEPT ![p] = {}]
  /\ agreed' = [agreed EXCEPT ![p] = {}]
  /\ npmCalls' = [npmCalls EXCEPT ![p] = <<>>]
  /\ requests' = [requests EXCEPT ![p] = 0]
  /\ fs0' = [fs0 EXCEPT ![p] = fs]
  /\ dir0' = [dir0 EXCEPT ![p] = componentsDir]
  /\ pkg0' = [pkg0 EXCEPT ![p] = packageJson]
  /\ initWrote' = [q \in ConfigFiles |-> IF wrote[p][q] # Absent THEN wrote[p][q] ELSE initWrote[q]]
  /\ wrote' = [wrote EXCEPT ![p] = [q \in ConfigFiles |-> Absent]]
  /\ UNCHANGED <<project, lastWriter>>

\* `flamin-ui init` typed at the shell prompt
RunInit(p) ==
  /\ pc[p] \in {"idle", "exited"}
  /\ spawn(p, "init", "none")

\* `flamin-ui add <c>` typed at the shell prompt
RunAdd(p, c) ==
  /\ pc[p] \in {"idle", "exited"}
  /\ spawn(p, "add", c)

(* ------------------------------- init --------------------------------- *)
\* lines 159-166: the manifest must be in the working directory
InitValidate(p) ==
  /\ pc[p] = "init"
  /\ IF existsSync(fs, PackageJson) THEN goto(p, "deps") /\ UNCHANGED exitCode ELSE exit(p, 1)
  /\ UNCHANGED <<project, cmd, component, locals, history, snapshot, lastWriter>>

\* lines 35-38: requiredDependencies.filter(dep => !deps?.[dep] && !devDeps?.[dep])
filterMissing(pj) ==
  SelectSeq(requiredDependencies,
            LAMBDA dep : ~Truthy(pj.dependencies[dep]) /\ ~Truthy(pj.devDependencies[dep]))

\* lines 25-40 and 68-72: installDependencies up to its branch on the missing list
InstallDependencies(p) ==
  /\ pc[p] = "deps"
  /\ IF ~existsSync(fs, PackageJson)
       THEN exit(p, 1) /\ UNCHANGED missingDependencies
       ELSE /\ missingDependencies' = [missingDependencies EXCEPT ![p] = filterMissing(packageJson)]
            /\ goto(p, IF Len(filterMissing(packageJson)) > 0 THEN "confirm" ELSE "util")
            /\ UNCHANGED exitCode
  /\ UNCHANGED <<project, cmd, component, componentContent, response, history, snapshot, lastWriter>>

\* (variant) the answer is ignored
installCancelledNever(confirm) == FALSE

\* line 49: if (!confirm)
installCancelled(confirm) == ~confirm

\* lines 41-52: the install confirmation
ConfirmInstall(p, confirm) ==
  /\ pc[p] = "confirm"
  /\ asked' = [asked EXCEPT ![p] = @ \cup {"install"}]
  /\ agreed' = [agreed EXCEPT ![p] = IF confirm THEN @ \cup {"install"} ELSE @]
  /\ IF installCancelled(confirm) THEN exit(p, 1) ELSE goto(p, "npm") /\ UNCHANGED exitCode
  /\ UNCHANGED <<project, cmd, component, locals, npmCalls, requests, wrote, snapshot, lastWriter>>

\* what a successful `npm install <names>` leaves in package.json
npmInstalled(pj, names) ==
  [pj EXCEPT !.dependencies = [d \in Required |-> IF d \in Range(names) THEN "^1.0.0" ELSE @[d]]]

\* lines 54-67: execSync(`npm install ${missingDependencies.join(" ")}`)
NpmInstall(p, ok) ==
  /\ pc[p] = "npm"
  /\ npmCalls' = [npmCalls EXCEPT ![p] = Append(@, [args |-> missingDependencies[p], ok |-> ok])]
  /\ IF ok
       THEN /\ packageJson' = npmInstalled(packageJson, missingDependencies[p])
            /\ goto(p, "util")
            /\ UNCHANGED exitCode
       ELSE /\ exit(p, 1)
            /\ UNCHANGED packageJson
  /\ UNCHANGED <<fs, componentsDir, cmd, component, locals, asked, agreed, requests, wrote,
                 snapshot, lastWriter>>

\* lines 107-111 and 125: copyUtilFile up to its prompt
CopyUtilFile(p) ==
  /\ pc[p] = "util"
  /\ IF existsSync(fs, utilDestPath)
       THEN goto(p, "utilPrompt") /\ UNCHANGED <<fs, wrote>>
       ELSE /\ fs' = copySync(fs, utilSource, utilDestPath)
            /\ noted(p, utilDestPath, utilSource)
            /\ goto(p, "cn")
  /\ UNCHANGED <<componentsDir, packageJson, cmd, component, locals, exitCode, asked, agreed,
                 npmCalls, requests, snapshot, lastWriter>>

\* (variant) the test is inverted
overwriteDeclinedInverted(overwrite) == overwrite

\* lines 119 and 141: if (!overwrite)
overwriteDeclined(overwrite) == ~overwrite

\* lines 112-126: the overwrite prompt of util.ts and what follows it
OverwriteUtil(p, overwrite) ==
  /\ pc[p] = "utilPrompt"
  /\ asked' = [asked EXCEPT ![p] = @ \cup {utilDestPath}]
  /\ agreed' = [agreed EXCEPT ![p] = IF overwrite THEN @ \cup {utilDestPath} ELSE @]
  /\ IF overwriteDeclined(overwrite)
       THEN UNCHANGED <<fs, wrote>>
       ELSE fs' = copySync(fs, utilSource, utilDestPath) /\ noted(p, utilDestPath, utilSource)
  /\ goto(p, "cn")
  /\ UNCHANGED <<componentsDir, packageJson, cmd, component, locals, exitCode,
                 npmCalls, requests, snapshot, lastWriter>>

\* lines 129-133 and 147-148: copyCNFile up to its prompt
CopyCNFile(p) ==
  /\ pc[p] = "cn"
  /\ IF existsSync(fs, cnDestPath)
       THEN goto(p, "cnPrompt") /\ UNCHANGED <<fs, wrote>>
       ELSE /\ fs' = copySync(fs, cnSource, cnDestPath)
            /\ noted(p, cnDestPath, cnSource)
            /\ goto(p, "tailwind")
  /\ UNCHANGED <<componentsDir, packageJson, cmd, component, locals, exitCode, asked, agreed,
                 npmCalls, requests, snapshot, lastWriter>>

\* lines 134-149: the overwrite prompt of cn.ts and what follows it
OverwriteCN(p, overwrite) ==
  /\ pc[p] = "cnPrompt"
  /\ asked' = [asked EXCEPT ![p] = @ \cup {cnDestPath}]
  /\ agreed' = [agreed EXCEPT ![p] = IF overwrite THEN @ \cup {cnDestPath} ELSE @]
  /\ IF overwriteDeclined(overwrite)
       THEN UNCHANGED <<fs, wrote>>
       ELSE fs' = copySync(fs, cnSource, cnDestPath) /\ noted(p, cnDestPath, cnSource)
  /\ goto(p, "tailwind")
  /\ UNCHANGED <<componentsDir, packageJson, cmd, component, locals, exitCode,
                 npmCalls, requests, snapshot, lastWriter>>

\* lines 75-105: copyTailwindConfig writes without looking at the destination
CopyTailwindConfig(p) ==
  /\ pc[p] = "tailwind"
  /\ fs' = outputFileSync(fs, tailwindConfigPath, tailwindConfigContent)
  /\ noted(p, tailwindConfigPath, tailwindConfigContent)
  /\ goto(p, "mkdir")
  /\ UNCHANGED <<componentsDir, packageJson, cmd, component, locals, exitCode, asked, agreed,
                 npmCalls, requests, snapshot, lastWriter>>

\* lines 180-194: fs.ensureDirSync(lib/components), then the handler returns
EnsureComponentsDir(p) ==
  /\ pc[p] = "mkdir"
  /\ componentsDir' = TRUE
  /\ exit(p, 0)
  /\ UNCHANGED <<fs, packageJson, cmd, component, locals, history, snapshot, lastWriter>>

(* -------------------------------- add --------------------------------- *)
\* (variant) the guard never finds the component
componentExistsNever(f, c) == FALSE

\* line 205: fs.existsSync(componentPath)
componentExists(f, c) == existsSync(f, componentPath(c))

\* lines 202-208: refuse to touch a component that is already there
AddCheck(p) ==
  /\ pc[p] = "add"
  /\ IF componentExists(fs, component[p]) THEN exit(p, 1) ELSE goto(p, "fetch") /\ UNCHANGED exitCode
  /\ UNCHANGED <<project, cmd, component, locals, history, snapshot, lastWriter>>

\* (variant) the status is not looked at
responseOkAlways(status) == TRUE

\* response.ok (line 215): the status is in the range 200-299
responseOk(status) == status = "200"

\* lines 213-218 and 221-226: the GET answered with a status, and the reading of the body
AddFetch(p, status, body) ==
  /\ pc[p] = "fetch"
  /\ requests' = [requests EXCEPT ![p] = @ + 1]
  /\ response' = [response EXCEPT ![p] = status]
  /\ IF responseOk(status)
       THEN /\ componentContent' = [componentContent EXCEPT ![p] = body]
            /\ goto(p, "write")
            /\ UNCHANGED exitCode
       ELSE /\ exit(p, 1)
            /\ UNCHANGED componentContent
  /\ UNCHANGED <<project, cmd, component, missingDependencies, asked, agreed, npmCalls, wrote,
                 snapshot, lastWriter>>

\* lines 214 and 221-226: fetch() rejects (DNS, connection, TLS)
AddFetchRejected(p) ==
  /\ pc[p] = "fetch"
  /\ requests' = [requests EXCEPT ![p] = @ + 1]
  /\ response' = [response EXCEPT ![p] = Rejected]
  /\ exit(p, 1)
  /\ UNCHANGED <<project, cmd, component, missingDependencies, componentContent, asked, agreed,
                 npmCalls, wrote, snapshot, lastWriter>>

\* lines 219-220 and 228-235: the write, then the handler returns
AddWrite(p) ==
  /\ pc[p] = "write"
  /\ fs' = outputFileSync(fs, componentPath(component[p]), componentContent[p])
  /\ componentsDir' = TRUE
  /\ lastWriter' = [lastWriter EXCEPT ![componentPath(component[p])] = p]
  /\ exit(p, 0)
  /\ UNCHANGED <<packageJson, cmd, component, locals, history, snapshot>>

(* --------------------------- specifications --------------------------- *)
Step(p) ==
  \/ RunInit(p)
  \/ \E c \in Components : RunAdd(p, c)
  \/ InitValidate(p)
  \/ InstallDependencies(p)
  \/ \E confirm \in BOOLEAN : ConfirmInstall(p, confirm)
  \/ \E ok \in BOOLEAN : NpmInstall(p, ok)
  \/ CopyUtilFile(p)
  \/ \E overwrite \in BOOLEAN : OverwriteUtil(p, overwrite)
  \/ CopyCNFile(p)
  \/ \E overwrite \in BOOLEAN : OverwriteCN(p, overwrite)
  \/ CopyTailwindConfig(p)
  \/ EnsureComponentsDir(p)
  \/ AddCheck(p)
  \/ \E status \in Statuses, body \in Bodies : AddFetch(p, status, body)
  \/ AddFetchRejected(p)
  \/ AddWrite(p)

\* One command at a time, one after the other, in the same directory.
Next == Step(1)

Spec == Init /\ [][Next]_vars

\* Two `add` processes started by the user at about the same time.
AddStep(p) ==
  \/ \E c \in Components : RunAdd(p, c)
  \/ AddCheck(p)
  \/ \E status \in Statuses, body \in Bodies : AddFetch(p, status, body)
  \/ AddFetchRejected(p)
  \/ AddWrite(p)

InitRace ==
  /\ Init
  /\ fs[PackageJson] # Absent
  /\ packageJson = [dependencies |-> MapOf(Required, {}), devDependencies |-> EmptyMap]
  /\ \A q \in ConfigFiles : fs[q] = Absent

NextRace == \E p \in Procs : AddStep(p)

SpecRace == InitRace /\ [][NextRace]_vars


(* =============================== claims =============================== *)
dest(p) == "lib/components/" \o component[p] \o ".tsx"
OverwritePrompts == {utilDestPath, cnDestPath}
untouched(p) == fs = fs0[p] /\ componentsDir = dir0[p] /\ packageJson = pkg0[p]

\* C1: an init run started without package.json goes from its first check
\* straight to exit code 1; it shows no prompt, starts no npm and leaves every
\* file, the components directory and the manifest as they were.
C1_InitWithoutManifest ==
  \A p \in Procs :
    (cmd[p] = "init" /\ fs0[p][PackageJson] = Absent) =>
      /\ untouched(p)
      /\ asked[p] = {} /\ npmCalls[p] = <<>>
      /\ pc[p] \in {"init", "exited"}
      /\ pc[p] = "exited" => exitCode[p] = <<1>>

C1_Witness ==
  /\ cmd[1] = "init" /\ pc[1] = "exited" /\ exitCode[1] = <<1>>
  /\ fs0[1][PackageJson] = Absent
  /\ fs[utilDestPath] = LocalEdit

\* C2: an add run that finds lib/components/X.tsx already there exits with
\* code 1 without any HTTP request, the file's content unchanged.
C2_AddExisting ==
  \A p \in Procs :
    (cmd[p] = "add" /\ fs0[p][dest(p)] # Absent) =>
      /\ requests[p] = 0
      /\ fs[dest(p)] = fs0[p][dest(p)]
      /\ untouched(p)
      /\ pc[p] \in {"add", "exited"}
      /\ pc[p] = "exited" => exitCode[p] = <<1>>

C2_Witness ==
  /\ cmd[1] = "add" /\ pc[1] = "exited" /\ exitCode[1] = <<1>>
  /\ fs0[1][dest(1)] \in Bodies
  /\ requests[1] = 0

\* C3: an add run whose destination was absent and whose GET was answered
\* with a success status and body B ends with exit code 0, and then the
\* project differs from what it was at the start in exactly one file,
\* lib/components/X.tsx, whose content is B.
C3_AddWritesBody ==
  \A p \in Procs :
    (cmd[p] = "add" /\ pc[p] = "exited" /\ fs0[p][dest(p)] = Absent /\ response[p] = "200") =>
      /\ exitCode[p] = <<0>>
      /\ requests[p] = 1
      /\ componentContent[p] \in Bodies
      /\ fs = [fs0[p] EXCEPT ![dest(p)] = componentContent[p]]
      /\ packageJson = pkg0[p]

C3_Witness ==
  /\ cmd[1] = "add" /\ pc[1] = "exited" /\ exitCode[1] = <<0>>
  /\ fs0[1][dest(1)] = Absent /\ response[1] = "200"
  /\ fs[dest(1)] = "body-2"
  /\ \E c \in Components : componentPath(c) # dest(1) /\ fs[componentPath(c)] = "body-1"

\* C4: an add run whose destination was absent and whose GET was answered
\* with a non-success status, or not answered at all, ends with exit code 1
\* and no file at lib/components/X.tsx; nothing was written.
C4_AddFetchFails ==
  \A p \in Procs :
    (cmd[p] = "add" /\ pc[p] = "exited" /\ fs0[p][dest(p)] = Absent
       /\ response[p] \in {"404", "500", Rejected}) =>
      /\ exitCode[p] = <<1>>
      /\ fs[dest(p)] = Absent
      /\ untouched(p)

C4_Witness ==
  /\ cmd[1] = "add" /\ pc[1] = "exited" /\ exitCode[1] = <<1>>
  /\ fs0[1][dest(1)] = Absent /\ response[1] = "404"

\* C5: an init run over a manifest that declares every required dependency
\* (as a key of dependencies or of devDependencies) never shows the install
\* confirmation, never starts npm, and ends with exit code 0, lib/components
\* and the three configuration files in place.
C5_AllDeclaredNoInstall ==
  \A p \in Procs :
    (cmd[p] = "init" /\ fs0[p][PackageJson] # Absent /\ Declared(pkg0[p]) = Required) =>
      /\ "install" \notin asked[p]
      /\ npmCalls[p] = <<>>
      /\ pc[p] = "exited" =>
           /\ exitCode[p] = <<0>>
           /\ componentsDir
           /\ \A q \in ConfigFiles : fs[q] # Absent

\* C6: while an init run has not been told to overwrite anything, every
\* configuration file that an earlier completed init wrote still has the
\* content that init gave it, up to and including the run's exit.
C6_SecondInitKeepsFiles ==
  \A p \in Procs :
    (cmd[p] = "init" /\ agreed[p] \cap OverwritePrompts = {}) =>
      \A q \in ConfigFiles : initWrote[q] # Absent => fs[q] = initWrote[q]

C6_Witness ==
  /\ cmd[1] = "init" /\ pc[1] = "exited" /\ exitCode[1] = <<0>>
  /\ asked[1] = OverwritePrompts /\ agreed[1] = {}
  /\ \A q \in ConfigFiles : initWrote[q] # Absent /\ fs[q] = initWrote[q]

\* C7: once installDependencies has computed it, the list of missing names is
\* exactly Required minus the keys of dependencies and devDependencies of the
\* manifest, and npm is started at most once, with exactly those names.
C7_MissingIsSetDifference ==
  \A p \in Procs :
    (cmd[p] = "init" /\ fs0[p][PackageJson] # Absent /\ pc[p] \notin {"init", "deps"}) =>
      /\ Range(missingDependencies[p]) = Required \ Declared(pkg0[p])
      /\ Len(npmCalls[p]) <= 1
      /\ \A i \in 1..Len(npmCalls[p]) : Range(npmCalls[p][i].args) = Required \ Declared(pkg0[p])

\* C8 (as claimed): each of the three configuration files that was there when
\* init started is changed only after its overwrite prompt was answered yes.
C8_AsClaimed ==
  \A p \in Procs :
    cmd[p] = "init" =>
      \A q \in ConfigFiles : (fs0[p][q] # Absent /\ fs[q] # fs0[p][q]) => q \in agreed[p]

\* C8 (amended): lib/util.ts and utils/cn.ts, when already there, are changed
\* only after their overwrite prompt was answered yes; a declined one is left
\* as it was and the run goes on to exit code 0.  tailwind.config.ts is
\* written with the fixed content without any prompt, whether or not it was
\* there.
C8_OverwriteProtection ==
  \A p \in Procs :
    cmd[p] = "init" =>
      /\ \A q \in OverwritePrompts :
           /\ (fs0[p][q] # Absent /\ fs[q] # fs0[p][q]) => q \in agreed[p]
           /\ q \in asked[p] \ agreed[p] => fs[q] = fs0[p][q]
           /\ (q \in asked[p] /\ pc[p] = "exited") => exitCode[p] = <<0>>
      /\ tailwindConfigPath \notin asked[p]
      /\ (pc[p] = "exited" /\ exitCode[p] = <<0>>) =>
           /\ fs[tailwindConfigPath] = tailwindConfigContent
           /\ \A q \in OverwritePrompts : fs[q] # Absent

C8_Witness ==
  /\ cmd[1] = "init" /\ pc[1] = "exited" /\ exitCode[1] = <<0>>
  /\ asked[1] = OverwritePrompts /\ agreed[1] = {cnDestPath}
  /\ fs0[1][utilDestPath] = LocalEdit /\ fs[utilDestPath] = LocalEdit
  /\ fs0[1][cnDestPath] = LocalEdit /\ fs[cnDestPath] = cnSource
  /\ fs0[1][tailwindConfigPath] = LocalEdit /\ fs[tailwindConfigPath] = tailwindConfigContent

reconciled(p) ==
  \/ pc[p] # "deps" /\ pc[p] # "init" /\ missingDependencies[p] = <<>> /\ npmCalls[p] = <<>>
  \/ npmCalls[p] = <<[args |-> missingDependencies[p], ok |-> TRUE]>> /\ "install" \in agreed[p]

\* C9: an init run with a missing dependency in which the confirmation was
\* declined or npm failed ends with exit code 1, no overwrite prompt shown and
\* no file or directory touched, and with npm never started when declined; and
\* in every init run an overwrite prompt, a changed file or a created
\* lib/components comes only after the dependencies were reconciled.
C9_AbortBeforeWrites ==
  \A p \in Procs :
    cmd[p] = "init" =>
      /\ ("install" \in asked[p] \ agreed[p]) =>
           /\ pc[p] = "exited" /\ exitCode[p] = <<1>>
           /\ npmCalls[p] = <<>>
           /\ asked[p] = {"install"}
           /\ untouched(p)
      /\ (\E i \in 1..Len(npmCalls[p]) : ~npmCalls[p][i].ok) =>
           /\ pc[p] = "exited" /\ exitCode[p] = <<1>>
           /\ asked[p] = {"install"}
           /\ fs = fs0[p] /\ componentsDir = dir0[p]
      /\ (fs # fs0[p] \/ componentsDir # dir0[p] \/ asked[p] \cap OverwritePrompts # {}
            \/ wrote[p] # [q \in ConfigFiles |-> Absent]) => reconciled(p)

C9_Witness ==
  /\ cmd[1] = "init" /\ pc[1] = "exited" /\ exitCode[1] = <<1>>
  /\ Len(npmCalls[1]) = 1 /\ ~npmCalls[1][1].ok
  /\ fs[utilDestPath] = Absent /\ ~componentsDir

\* C10: of two concurrent add runs for one component that both found the
\* destination absent and both ended with exit code 0, the one that wrote
\* last determines the file's content.
C10_LastWriterWins ==
  \A p \in Procs :
    (cmd[p] = "add" /\ pc[p] = "exited" /\ exitCode[p] = <<0>> /\ lastWriter[dest(p)] = p) =>
      fs[dest(p)] = componentContent[p]

C10_Witness ==
  /\ \A p \in Procs : cmd[p] = "add" /\ pc[p] = "exited" /\ exitCode[p] = <<0>>
  /\ dest(1) = dest(2)
  /\ fs0[1][dest(1)] = Absent /\ fs0[2][dest(2)] = Absent
  /\ componentContent[1] # componentContent[2]
  /\ lastWriter[dest(1)] = 2 /\ fs[dest(1)] = componentContent[2]

====
